---- MODULE Spec2Model ----
(***************************************************************************)
(* Throttle watchdog and request path of the BEA API client                *)
(* (src/src/shark/bea.py).                                                 *)
(*                                                                         *)
(* Specifications SpecState, Spec and SpecWarm share the operators that    *)
(* model _ThrottleWatchdog.State:                                          *)
(*   SpecState - one State object driven directly through its methods      *)
(*               and properties, with a clock that only moves forward;     *)
(*   Spec      - threads running _API.get against the class-level          *)
(*               _ThrottleWatchdog; get() is split into steps wherever     *)
(*               another thread can reach the shared watchdog in between;  *)
(*   SpecWarm  - Spec started from a registry that already holds a 429.    *)
(*                                                                         *)
(* SpecStore models the feature store of finagg                            *)
(* (src/src/finagg/yfinance/features.py, src/src/finagg/fundam/store.py):  *)
(* to_store and from_store on the (ticker, date, name, value) table.       *)
(*                                                                         *)
(* Times are whole seconds (datetime differences via total_seconds()).     *)
(***************************************************************************)
EXTENDS Integers, Sequences, FiniteSets, TLC

VARIABLES
    \* ---- shared
    clock,      \* datetime.now(tz=timezone.utc), in seconds
    \* ---- SpecState: one _ThrottleWatchdog.State
    responses,  \* State.responses, the deque, oldest first
    lastOp,     \* name of the method/property evaluated last
    lastArg,    \* the response handed to update(), when lastOp = "update"
    lastRet,    \* what that evaluation returned
    lastExc,    \* the exception it raised, "none" when it returned
    before,     \* State.responses as it was when the evaluation began
    nUpdates,   \* number of update() calls made so far
    seen,       \* what the State last returned since the last append
    \* ---- Spec: threads in _API.get
    env,        \* os.environ.get("BEA_API_KEY"), NoKey when unset
    states,     \* _ThrottleWatchdog.states: api_key -> State object id
    heap,       \* State object id -> its responses deque
    pc,         \* per thread: position inside _API.get
    api_key,    \* per thread: local api_key
    found,      \* per thread: outcome of `api_key not in self.states`
    st,         \* per thread: the State returned by __getitem__
    wake,       \* per thread: clock value at which time.sleep returns
    response,   \* per thread: local response
    rec,        \* per thread: the Response built inside State.update
    call,       \* per thread: what this get() has done so far
    result,     \* the get() that ended in the last step, NoResult otherwise
    nCalls,     \* number of get() calls started so far
    \* ---- Spec: history of the run, read by the properties only
    owner,      \* State object id -> api_key it was constructed for
    hist,       \* per api_key: the 429 recorded last and requests sent since
    \* ---- SpecStore: the feature store
    table,      \* rows of the features table
    storeOp,    \* "to_store" or "from_store", whichever was called last
    storeArg,   \* the ticker and the dataframe it was called with
    storeRet,   \* what it returned: a row count or a dataframe
    storeExc,   \* the exception it raised, "none" when it returned
    tableBefore,\* the table as it was when the call began
    writes,     \* the to_store calls that returned, in order
    nWrites     \* number of to_store calls made so far

stateVars == <<responses, lastOp, lastArg, lastRet, lastExc, before, nUpdates,
               seen>>
apiVars == <<env, states, heap, pc, api_key, found, st, wake, response, rec,
             call, result, nCalls, owner, hist>>
storeVars == <<table, storeOp, storeArg, storeRet, storeExc, tableBefore,
               writes, nWrites>>
vars == <<clock, stateVars, apiVars, storeVars>>

-----------------------------------------------------------------------------
(* Bounds of the model *)

MaxUpdates == 2
MaxCalls == 2
MaxWrites == 2

\* Clock values at which something may happen: the start, 60 seconds later
\* (exactly the width of the window) and one second after that.
StateInstants == {0, 60, 61}

-----------------------------------------------------------------------------
(* Program constants *)

max_errors_per_minute == 30
max_requests_per_minute == 100
max_volume_per_minute == 100000000
WindowSeconds == 60

-----------------------------------------------------------------------------
(* HTTP responses as the throttle code sees them *)

NoHeader == [kind |-> "absent", value |-> 0]
BadHeader == [kind |-> "malformed", value |-> 0]
Header(v) == [kind |-> "number", value |-> v]

\* requests.Response / requests_cache.CachedResponse: status_code,
\* headers["Retry-After"], len(content), from_cache, and whether the body
\* carries the {"BEAAPI": {"Results": ...}} envelope.
Resp(status, hdr, size, cached, body) ==
    [status_code |-> status, retry_after |-> hdr, size |-> size,
     from_cache |-> cached, body |-> body]

Max(a, b) == IF a >= b THEN a ELSE b

\* float(response.headers["Retry-After"]): KeyError when the header is
\* missing, ValueError when it is not a number.
ParseRetryAfter(hdr) ==
    CASE hdr.kind = "absent" -> [exc |-> "KeyError", value |-> 0]
      [] hdr.kind = "malformed" -> [exc |-> "ValueError", value |-> 0]
      [] OTHER -> [exc |-> "none", value |-> hdr.value]

-----------------------------------------------------------------------------
(* _ThrottleWatchdog.State: every method returns the deque it leaves        *)
(* behind together with its return value.                                  *)

youngest(w) == w[Len(w)]

oldest(w) == w[1]

\* State.pop: popleft() while the deque is non-empty and its two ends are
\* more than 60 seconds apart. The loop stops at the first response, from
\* the front, that is within 60 seconds of the youngest one (the youngest
\* one itself at the latest), and that response becomes the oldest.
Stale(w, i) == youngest(w).time - w[i].time > WindowSeconds

\* Variant of pop: `if` in place of `while`, a single popleft()
pop_once(w) ==
    IF w # <<>> /\ Stale(w, 1) THEN Tail(w) ELSE w

\* Variant of pop: a stale front makes the whole deque be cleared
pop_clear(w) ==
    IF w # <<>> /\ Stale(w, 1) THEN <<>> ELSE w

pop(w) ==
    IF w = <<>> THEN w
    ELSE LET first == CHOOSE i \in 1..Len(w) :
                          /\ ~Stale(w, i)
                          /\ \A j \in 1..(i - 1) : Stale(w, j)
         IN  SubSeq(w, first, Len(w))

\* sum([r.is_error for r in self.responses]) over w[lo..hi]; the sum is
\* split in halves to keep the evaluation shallow.
RECURSIVE SumErrorsIn(_, _, _)
SumErrorsIn(w, lo, hi) ==
    IF lo > hi THEN 0
    ELSE IF lo = hi THEN (IF w[lo].is_error THEN 1 ELSE 0)
    ELSE LET mid == (lo + hi) \div 2
         IN  SumErrorsIn(w, lo, mid) + SumErrorsIn(w, mid + 1, hi)

SumErrors(w) == SumErrorsIn(w, 1, Len(w))

\* sum([r.size for r in self.responses]) over w[lo..hi]
RECURSIVE SumSizesIn(_, _, _)
SumSizesIn(w, lo, hi) ==
    IF lo > hi THEN 0
    ELSE IF lo = hi THEN w[lo].size
    ELSE LET mid == (lo + hi) \div 2
         IN  SumSizesIn(w, lo, mid) + SumSizesIn(w, mid + 1, hi)

SumSizes(w) == SumSizesIn(w, 1, Len(w))

errors_per_minute(w) ==
    LET p == pop(w) IN [responses |-> p, ret |-> SumErrors(p)]

requests_per_minute(w) ==
    LET p == pop(w) IN [responses |-> p, ret |-> Len(p)]

volume_per_minute(w) ==
    LET p == pop(w) IN [responses |-> p, ret |-> SumSizes(p)]

\* Variant of is_throttled: the request limit compared with > in place of >=
is_throttled_strict(w) ==
    LET e == errors_per_minute(w)
        r == requests_per_minute(e.responses)
        v == volume_per_minute(r.responses)
    IN  [responses |-> v.responses,
         ret |-> \/ e.ret >= max_errors_per_minute
                 \/ r.ret > max_requests_per_minute
                 \/ v.ret >= max_volume_per_minute]

\* Variant of is_throttled: the request count is left out of the test
is_throttled_norequests(w) ==
    LET e == errors_per_minute(w)
        r == requests_per_minute(e.responses)
        v == volume_per_minute(r.responses)
    IN  [responses |-> v.responses,
         ret |-> \/ e.ret >= max_errors_per_minute
                 \/ v.ret >= max_volume_per_minute]

\* Variant of is_throttled: the error limit compared with > in place of >=
is_throttled_laxerrors(w) ==
    LET e == errors_per_minute(w)
        r == requests_per_minute(e.responses)
        v == volume_per_minute(r.responses)
    IN  [responses |-> v.responses,
         ret |-> \/ e.ret > max_errors_per_minute
                 \/ r.ret >= max_requests_per_minute
                 \/ v.ret >= max_volume_per_minute]

\* Variant of is_throttled: the volume pass is left out
is_throttled_novolume(w) ==
    LET e == errors_per_minute(w)
        r == requests_per_minute(e.responses)
    IN  [responses |-> r.responses,
         ret |-> \/ e.ret >= max_errors_per_minute
                 \/ r.ret >= max_requests_per_minute]

is_throttled(w) ==
    LET e == errors_per_minute(w)
        r == requests_per_minute(e.responses)
        v == volume_per_minute(r.responses)
    IN  [responses |-> v.responses,
         ret |-> \/ e.ret >= max_errors_per_minute
                 \/ r.ret >= max_requests_per_minute
                 \/ v.ret >= max_volume_per_minute]

\* Variant of next_valid_request_dt: the oldest response is read before
\* is_throttled has evicted the stale ones
next_valid_request_dt_stale(w) ==
    IF w = <<>>
    THEN [responses |-> w, ret |-> 0]
    ELSE LET dt == youngest(w).retry_after
             first == oldest(w)
             th == is_throttled(w)
         IN  [responses |-> th.responses,
              ret |-> IF th.ret
                      THEN Max(dt, WindowSeconds
                                   - (youngest(w).time - first.time))
                      ELSE dt]

\* Variant of next_valid_request_dt: a throttled window's share replaces
\* the server's Retry-After instead of being combined with it by max
next_valid_request_dt_nomax(w) ==
    IF w = <<>>
    THEN [responses |-> w, ret |-> 0]
    ELSE LET dt == youngest(w).retry_after
             th == is_throttled(w)
             p == th.responses
         IN  [responses |-> p,
              ret |-> IF th.ret
                      THEN WindowSeconds - (youngest(p).time - oldest(p).time)
                      ELSE dt]

\* Variant of next_valid_request_dt: a State without history asks for a
\* full window of waiting
next_valid_request_dt_emptywait(w) ==
    IF w = <<>>
    THEN [responses |-> w, ret |-> WindowSeconds]
    ELSE LET dt == youngest(w).retry_after
             th == is_throttled(w)
             p == th.responses
         IN  [responses |-> p,
              ret |-> IF th.ret
                      THEN Max(dt, WindowSeconds
                                   - (youngest(p).time - oldest(p).time))
                      ELSE dt]

\* Variant of next_valid_request_dt: the span of the window is taken as
\* oldest minus youngest
next_valid_request_dt_reversed(w) ==
    IF w = <<>>
    THEN [responses |-> w, ret |-> 0]
    ELSE LET dt == youngest(w).retry_after
             th == is_throttled(w)
             p == th.responses
         IN  [responses |-> p,
              ret |-> IF th.ret
                      THEN Max(dt, WindowSeconds
                                   - (oldest(p).time - youngest(p).time))
                      ELSE dt]

\* Variant of next_valid_request_dt: the window's share of the wait is
\* counted from the current time
next_valid_request_dt_now(w) ==
    IF w = <<>>
    THEN [responses |-> w, ret |-> 0]
    ELSE LET dt == youngest(w).retry_after
             th == is_throttled(w)
             p == th.responses
         IN  [responses |-> p,
              ret |-> IF th.ret
                      THEN Max(dt, WindowSeconds - (clock - oldest(p).time))
                      ELSE dt]

next_valid_request_dt(w) ==
    IF w = <<>>
    THEN [responses |-> w, ret |-> 0]
    ELSE LET dt == youngest(w).retry_after
             th == is_throttled(w)
             p == th.responses
         IN  [responses |-> p,
              ret |-> IF th.ret
                      THEN Max(dt, WindowSeconds
                                   - (youngest(p).time - oldest(p).time))
                      ELSE dt]

\* _ThrottleWatchdog.Response(datetime.now(), len(content),
\*                            status_code != 200, retry_after)
Response(now, resp, retry) ==
    [time |-> now, size |-> resp.size, is_error |-> resp.status_code # 200,
     retry_after |-> retry]

\* Variant of update_parse: the from_cache flag is not looked at
update_parse_nocache(resp) ==
    IF resp.status_code = 429
    THEN LET p == ParseRetryAfter(resp.retry_after)
         IN  IF p.exc # "none"
             THEN [todo |-> "raise", exc |-> p.exc, retry |-> 0]
             ELSE [todo |-> "append", exc |-> "none", retry |-> p.value]
    ELSE [todo |-> "append", exc |-> "none", retry |-> 0]

\* First half of State.update: the from_cache test and the Retry-After
\* parse. "skip" = return 0.0 at once, "raise" = the parse failed.
update_parse(resp) ==
    IF resp.from_cache
    THEN [todo |-> "skip", exc |-> "none", retry |-> 0]
    ELSE IF resp.status_code = 429
         THEN LET p == ParseRetryAfter(resp.retry_after)
              IN  IF p.exc # "none"
                  THEN [todo |-> "raise", exc |-> p.exc, retry |-> 0]
                  ELSE [todo |-> "append", exc |-> "none", retry |-> p.value]
         ELSE [todo |-> "append", exc |-> "none", retry |-> 0]

\* State.update run without interruption at clock value now
update(w, resp, now) ==
    LET u == update_parse(resp)
    IN  CASE u.todo = "skip" -> [responses |-> w, ret |-> 0, exc |-> "none"]
          [] u.todo = "raise" -> [responses |-> w, ret |-> 0, exc |-> u.exc]
          [] OTHER ->
               LET n == next_valid_request_dt(
                            Append(w, Response(now, resp, u.retry)))
               IN  [responses |-> n.responses, ret |-> n.ret, exc |-> "none"]

-----------------------------------------------------------------------------
(* SpecState: one State object, used from one thread *)

NoKey == ""
Keys == {"K1", "K2"}
Threads == {"t1", "t2"}

NoResp == Resp(0, NoHeader, 0, FALSE, "none")
NoRec == [time |-> 0, size |-> 0, is_error |-> FALSE, retry_after |-> 0]
NoCall == [got |-> "none", appended |-> 0, slept |-> 0]
NoResult == [thread |-> "none", kind |-> "none", call |-> NoCall]
NoHist == [deadline |-> 0, early |-> FALSE]

HugeSize == max_volume_per_minute + 1
HalfSize == max_volume_per_minute \div 2

\* Responses handed to State.update
StateResponses ==
    { Resp(200, NoHeader, 1, FALSE, "results"),
      Resp(200, NoHeader, HalfSize, FALSE, "results"),
      Resp(200, NoHeader, HugeSize, FALSE, "results"),
      Resp(200, NoHeader, 1, TRUE, "results"),
      Resp(500, Header(20), 1, FALSE, "error"),
      Resp(429, Header(20), 1, FALSE, "error"),
      Resp(429, NoHeader, 1, FALSE, "error"),
      Resp(429, BadHeader, 1, FALSE, "error") }

\* n responses recorded at clock value 0
Burst(n, resp) == [i \in 1..n |-> Response(0, resp, 0)]

\* Histories the State starts from: none, one short of the error limit,
\* one short of the request limit.
InitWindows ==
    { <<>>,
      Burst(max_errors_per_minute - 1, Resp(500, NoHeader, 1, FALSE, "error")),
      Burst(max_requests_per_minute - 1,
            Resp(200, NoHeader, 1, FALSE, "results")) }

\* A dataframe: the index, the column labels, and the cells by position
NoFrame == [index |-> <<>>, columns |-> <<>>, data |-> <<>>]

StoreIdle ==
    /\ table = {}
    /\ storeOp = "none"
    /\ storeArg = [ticker |-> "", df |-> NoFrame]
    /\ storeRet = [count |-> 0, df |-> NoFrame]
    /\ storeExc = "none"
    /\ tableBefore = {}
    /\ writes = <<>>
    /\ nWrites = 0

ApiIdle ==
    /\ env = NoKey
    /\ states = << >>
    /\ heap = << >>
    /\ owner = << >>
    /\ pc = [t \in Threads |-> "idle"]
    /\ api_key = [t \in Threads |-> NoKey]
    /\ found = [t \in Threads |-> FALSE]
    /\ st = [t \in Threads |-> 0]
    /\ wake = [t \in Threads |-> 0]
    /\ response = [t \in Threads |-> NoResp]
    /\ rec = [t \in Threads |-> NoRec]
    /\ call = [t \in Threads |-> NoCall]
    /\ result = NoResult
    /\ nCalls = 0
    /\ hist = [k \in Keys |-> NoHist]

\* Nothing was returned yet: no wait, no is_throttled
NoSeen == [wait |-> 0 - 1, throttled |-> "unknown"]

StateIdle ==
    /\ seen = NoSeen
    /\ responses = <<>>
    /\ lastOp = "none"
    /\ lastArg = NoResp
    /\ lastRet = 0
    /\ lastExc = "none"
    /\ before = <<>>
    /\ nUpdates = 0

InitState ==
    /\ clock = 0
    /\ responses \in InitWindows
    /\ lastOp = "none"
    /\ lastArg = NoResp
    /\ lastRet = 0
    /\ lastExc = "none"
    /\ before = <<>>
    /\ nUpdates = 0
    /\ seen = NoSeen
    /\ ApiIdle
    /\ StoreIdle

\* Time passes
Tick(c) ==
    /\ c > clock
    /\ clock' = c

TickState ==
    /\ \E c \in StateInstants : Tick(c)
    /\ lastOp' = "tick"
    /\ lastArg' = NoResp
    /\ lastRet' = 0
    /\ lastExc' = "none"
    /\ before' = responses
    /\ UNCHANGED <<responses, nUpdates, seen, apiVars, storeVars>>

Evaluated(name, arg, out, exc) ==
    /\ lastOp' = name
    /\ lastArg' = arg
    /\ lastRet' = out.ret
    /\ lastExc' = exc
    /\ before' = responses
    /\ responses' = out.responses
    /\ seen' = CASE name = "next_valid_request_dt" ->
                      [seen EXCEPT !.wait = out.ret]
                 [] name = "is_throttled" ->
                      [seen EXCEPT !.throttled = IF out.ret THEN "yes" ELSE "no"]
                 [] name = "update" /\ exc = "none" /\ ~arg.from_cache ->
                      [wait |-> out.ret, throttled |-> "unknown"]
                 [] OTHER -> seen
    /\ UNCHANGED <<clock, apiVars, storeVars>>

CallUpdate ==
    \E resp \in StateResponses :
        /\ nUpdates < MaxUpdates
        /\ nUpdates' = nUpdates + 1
        /\ LET u == update(responses, resp, clock)
           IN  Evaluated("update", resp, u, u.exc)

ReadErrorsPerMinute ==
    /\ Evaluated("errors_per_minute", NoResp, errors_per_minute(responses),
                 "none")
    /\ UNCHANGED nUpdates

ReadRequestsPerMinute ==
    /\ Evaluated("requests_per_minute", NoResp,
                 requests_per_minute(responses), "none")
    /\ UNCHANGED nUpdates

ReadVolumePerMinute ==
    /\ Evaluated("volume_per_minute", NoResp, volume_per_minute(responses),
                 "none")
    /\ UNCHANGED nUpdates

ReadIsThrottled ==
    /\ Evaluated("is_throttled", NoResp, is_throttled(responses), "none")
    /\ UNCHANGED nUpdates

ReadNextValidRequestDt ==
    /\ Evaluated("next_valid_request_dt", NoResp,
                 next_valid_request_dt(responses), "none")
    /\ UNCHANGED nUpdates

CallPop ==
    /\ Evaluated("pop", NoResp, [responses |-> pop(responses), ret |-> 0],
                 "none")
    /\ UNCHANGED nUpdates

NextState ==
    \/ TickState
    \/ CallUpdate
    \/ ReadErrorsPerMinute
    \/ ReadRequestsPerMinute
    \/ ReadVolumePerMinute
    \/ ReadIsThrottled
    \/ ReadNextValidRequestDt
    \/ CallPop

SpecState == InitState /\ [][NextState]_vars

-----------------------------------------------------------------------------
(* Spec: threads calling _API.get on the shared class-level watchdog.      *)
(* A State object is an index into heap; states maps an api_key to one.    *)

\* Clock values at which something may happen in Spec
ApiInstants == {0, 20}

\* Responses the server may give to a request that went out
ApiResponses ==
    { Resp(200, NoHeader, 1, FALSE, "results"),
      Resp(200, NoHeader, 1, FALSE, "error"),
      Resp(429, Header(20), 1, FALSE, "error"),
      Resp(429, NoHeader, 1, FALSE, "error") }

\* What requests_cache returns without contacting the server
CachedResponse == Resp(200, NoHeader, 1, TRUE, "results")

Init ==
    /\ clock = 0
    /\ StateIdle
    /\ env \in {NoKey, "K1"}
    /\ states = << >>
    /\ heap = << >>
    /\ owner = << >>
    /\ pc = [t \in Threads |-> "idle"]
    /\ api_key = [t \in Threads |-> NoKey]
    /\ found = [t \in Threads |-> FALSE]
    /\ st = [t \in Threads |-> 0]
    /\ wake = [t \in Threads |-> 0]
    /\ response = [t \in Threads |-> NoResp]
    /\ rec = [t \in Threads |-> NoRec]
    /\ call = [t \in Threads |-> NoCall]
    /\ result = NoResult
    /\ nCalls = 0
    /\ hist = [k \in Keys |-> NoHist]
    /\ StoreIdle

\* Every step that ends no get() leaves result at NoResult
Running == result' = NoResult

TickApi ==
    /\ \E c \in ApiInstants : Tick(c)
    /\ Running
    /\ UNCHANGED <<stateVars, storeVars,
                   env, states, heap, pc, api_key, found, st, wake,
                   response, rec, call, nCalls, owner, hist>>

\* get() is over for thread t: its locals are gone, result says how it ended
Finish(t, kind, done) ==
    /\ pc' = [pc EXCEPT ![t] = "idle"]
    /\ result' = [thread |-> t, kind |-> kind, call |-> done]
    /\ call' = [call EXCEPT ![t] = NoCall]
    /\ api_key' = [api_key EXCEPT ![t] = NoKey]
    /\ found' = [found EXCEPT ![t] = FALSE]
    /\ st' = [st EXCEPT ![t] = 0]
    /\ wake' = [wake EXCEPT ![t] = 0]
    /\ response' = [response EXCEPT ![t] = NoResp]
    /\ rec' = [rec EXCEPT ![t] = NoRec]

\* Variant of Call: the test `if not api_key` is left out
Call_nocheck(t, arg) ==
    /\ pc[t] = "idle"
    /\ nCalls < MaxCalls
    /\ nCalls' = nCalls + 1
    /\ Running
    /\ api_key' = [api_key EXCEPT ![t] = IF arg # NoKey THEN arg ELSE env]
    /\ pc' = [pc EXCEPT ![t] = "getitem"]
    /\ UNCHANGED <<clock, stateVars, storeVars,
                   env, states, heap, found, st, wake,
                   response, rec, call, owner, hist>>

\* api_key = api_key or os.environ.get("BEA_API_KEY", None);
\* if not api_key: raise RuntimeError
Call(t, arg) ==
    /\ pc[t] = "idle"
    /\ nCalls < MaxCalls
    /\ nCalls' = nCalls + 1
    /\ LET key == IF arg # NoKey THEN arg ELSE env
       IN  IF key = NoKey
           THEN /\ result' = [thread |-> t, kind |-> "RuntimeError",
                              call |-> NoCall]
                /\ UNCHANGED <<pc, api_key>>
           ELSE /\ Running
                /\ api_key' = [api_key EXCEPT ![t] = key]
                /\ pc' = [pc EXCEPT ![t] = "getitem"]
    /\ UNCHANGED <<clock, stateVars, storeVars,
                   env, states, heap, found, st, wake,
                   response, rec, call, owner, hist>>

\* __getitem__: `if api_key not in self.states`
GetItemCheck(t) ==
    /\ pc[t] = "getitem"
    /\ found' = [found EXCEPT ![t] = api_key[t] \in DOMAIN states]
    /\ pc' = [pc EXCEPT ![t] =
                  IF api_key[t] \in DOMAIN states THEN "wait" ELSE "create"]
    /\ Running
    /\ UNCHANGED <<clock, stateVars, storeVars,
                   env, states, heap, api_key, st, wake,
                   response, rec, call, nCalls, owner, hist>>

\* __getitem__: self.states[api_key] = _ThrottleWatchdog.State(api_key, deque())
GetItemCreate(t) ==
    /\ pc[t] = "create"
    /\ heap' = Append(heap, <<>>)
    /\ owner' = Append(owner, api_key[t])
    /\ states' = [k \in DOMAIN states \cup {api_key[t]} |->
                      IF k = api_key[t] THEN Len(heap) + 1 ELSE states[k]]
    /\ pc' = [pc EXCEPT ![t] = "wait"]
    /\ Running
    /\ UNCHANGED <<clock, stateVars, storeVars,
                   env, api_key, found, st, wake, response,
                   rec, call, nCalls, hist>>

\* Variant of ReadWait: the sleep is taken holding a lock every get() needs,
\* so no wait is read while another caller sleeps
ReadWait_locked(t) ==
    /\ pc[t] = "wait"
    /\ \A u \in Threads \ {t} : ~(pc[u] = "sleep" /\ clock < wake[u])
    /\ LET s == states[api_key[t]]
           n == next_valid_request_dt(heap[s])
       IN  /\ st' = [st EXCEPT ![t] = s]
           /\ heap' = [heap EXCEPT ![s] = n.responses]
           /\ wake' = [wake EXCEPT ![t] = clock + n.ret]
           /\ call' = [call EXCEPT ![t].slept = n.ret]
    /\ pc' = [pc EXCEPT ![t] = "sleep"]
    /\ Running
    /\ UNCHANGED <<clock, stateVars, storeVars, env, states, api_key, found,
                   response, rec, nCalls, owner, hist>>

\* __getitem__: return self.states[api_key], and
\* time.sleep(<that State>.next_valid_request_dt): the property is
\* evaluated and the sleep begins
ReadWait(t) ==
    /\ pc[t] = "wait"
    /\ LET s == states[api_key[t]]
           n == next_valid_request_dt(heap[s])
       IN  /\ st' = [st EXCEPT ![t] = s]
           /\ heap' = [heap EXCEPT ![s] = n.responses]
           /\ wake' = [wake EXCEPT ![t] = clock + n.ret]
           /\ call' = [call EXCEPT ![t].slept = n.ret]
    /\ pc' = [pc EXCEPT ![t] = "sleep"]
    /\ Running
    /\ UNCHANGED <<clock, stateVars, storeVars, env, states, api_key, found,
                   response, rec, nCalls, owner, hist>>

\* The sleep is over and requests.get sends the request to the server
Send(t) ==
    /\ pc[t] = "sleep"
    /\ clock >= wake[t]
    /\ pc' = [pc EXCEPT ![t] = "inflight"]
    /\ wake' = [wake EXCEPT ![t] = 0]
    /\ hist' = [hist EXCEPT ![api_key[t]] =
                    [deadline |-> 0,
                     early |-> @.early \/ clock < @.deadline]]
    /\ Running
    /\ UNCHANGED <<clock, stateVars, storeVars,
                   env, states, heap, api_key, found, st,
                   response, rec, call, nCalls, owner>>

\* Variant of CacheHit: the cache is consulted before the sleep is over
CacheHit_nowait(t) ==
    /\ pc[t] = "sleep"
    /\ response' = [response EXCEPT ![t] = CachedResponse]
    /\ call' = [call EXCEPT ![t].got = "cached"]
    /\ pc' = [pc EXCEPT ![t] = "update"]
    /\ wake' = [wake EXCEPT ![t] = 0]
    /\ Running
    /\ UNCHANGED <<clock, stateVars, storeVars,
                   env, states, heap, api_key, found, st,
                   rec, nCalls, owner, hist>>

\* The sleep is over and requests.get is answered from the local cache
CacheHit(t) ==
    /\ pc[t] = "sleep"
    /\ clock >= wake[t]
    /\ response' = [response EXCEPT ![t] = CachedResponse]
    /\ call' = [call EXCEPT ![t].got = "cached"]
    /\ pc' = [pc EXCEPT ![t] = "update"]
    /\ wake' = [wake EXCEPT ![t] = 0]
    /\ Running
    /\ UNCHANGED <<clock, stateVars, storeVars,
                   env, states, heap, api_key, found, st,
                   rec, nCalls, owner, hist>>

\* requests.get returns the server's response
Receive(t, resp) ==
    /\ pc[t] = "inflight"
    /\ response' = [response EXCEPT ![t] = resp]
    /\ call' = [call EXCEPT ![t].got = "fresh"]
    /\ pc' = [pc EXCEPT ![t] = "update"]
    /\ Running
    /\ UNCHANGED <<clock, stateVars, storeVars,
                   env, states, heap, api_key, found, st,
                   wake, rec, nCalls, owner, hist>>

\* Variant of TransportError: the failed request is recorded as an error
\* response before the exception leaves get()
TransportError_recorded(t) ==
    /\ pc[t] = "inflight"
    /\ heap' = [heap EXCEPT ![states[api_key[t]]] =
                    Append(@, [time |-> clock, size |-> 0, is_error |-> TRUE,
                               retry_after |-> 0])]
    /\ Finish(t, "ConnectionError", [call[t] EXCEPT !.appended = @ + 1])
    /\ UNCHANGED <<clock, stateVars, storeVars,
                   env, states, nCalls, owner, hist>>

\* requests.get raises: no response was received
TransportError(t) ==
    /\ pc[t] = "inflight"
    /\ Finish(t, "ConnectionError", call[t])
    /\ UNCHANGED <<clock, stateVars, storeVars,
                   env, states, heap, nCalls, owner, hist>>

\* results = json.loads(response.content)["BEAAPI"]["Results"], the
\* results_key and return_type steps: get() returns, or raises on a body
\* without the envelope
Parsed(resp) == IF resp.body = "results" THEN "returned" ELSE "KeyError"

\* cls.throttle_watchdog.update(api_key, response), up to the construction
\* of the Response: self.states[api_key], the from_cache test, the
\* Retry-After parse, datetime.now(). A response served from the cache
\* makes State.update return at once, and get() goes on to parse it.
UpdateBegin(t) ==
    /\ pc[t] = "update"
    /\ LET u == update_parse(response[t])
       IN  CASE u.todo = "skip" -> Finish(t, Parsed(response[t]), call[t])
             [] u.todo = "raise" -> Finish(t, u.exc, call[t])
             [] OTHER ->
                  /\ pc' = [pc EXCEPT ![t] = "append"]
                  /\ st' = [st EXCEPT ![t] = states[api_key[t]]]
                  /\ rec' = [rec EXCEPT ![t] =
                                 Response(clock, response[t], u.retry)]
                  /\ Running
                  /\ UNCHANGED <<api_key, found, wake, response, call>>
    /\ UNCHANGED <<clock, stateVars, storeVars,
                   env, states, heap, nCalls, owner, hist>>

\* UpdateAppend with one deque shared by every State: the record is
\* appended to all of them
UpdateAppend_shared(t) ==
    /\ pc[t] = "append"
    /\ heap' = [o \in DOMAIN heap |->
                    next_valid_request_dt(Append(heap[o], rec[t])).responses]
    /\ hist' = [hist EXCEPT ![api_key[t]].deadline =
                    IF response[t].status_code = 429
                    THEN Max(@, clock + rec[t].retry_after) ELSE @]
    /\ Finish(t, Parsed(response[t]),
              [call[t] EXCEPT !.appended = @ + 1])
    /\ UNCHANGED <<clock, stateVars, storeVars, env, states, nCalls, owner>>

\* State.update: self.responses.append(...); return self.next_valid_request_dt
\* and then, in get(), the parse of the response
UpdateAppend(t) ==
    /\ pc[t] = "append"
    /\ LET n == next_valid_request_dt(Append(heap[st[t]], rec[t]))
       IN  heap' = [heap EXCEPT ![st[t]] = n.responses]
    /\ hist' = [hist EXCEPT ![api_key[t]].deadline =
                    IF response[t].status_code = 429
                    THEN Max(@, clock + rec[t].retry_after) ELSE @]
    /\ Finish(t, Parsed(response[t]),
              [call[t] EXCEPT !.appended = @ + 1])
    /\ UNCHANGED <<clock, stateVars, storeVars, env, states, nCalls, owner>>

Next ==
    \/ TickApi
    \/ \E t \in Threads, arg \in Keys \cup {NoKey} : Call(t, arg)
    \/ \E t \in Threads : GetItemCheck(t)
    \/ \E t \in Threads : GetItemCreate(t)
    \/ \E t \in Threads : ReadWait(t)
    \/ \E t \in Threads : Send(t)
    \/ \E t \in Threads : CacheHit(t)
    \/ \E t \in Threads, resp \in ApiResponses : Receive(t, resp)
    \/ \E t \in Threads : TransportError(t)
    \/ \E t \in Threads : UpdateBegin(t)
    \/ \E t \in Threads : UpdateAppend(t)

Spec == Init /\ [][Next]_vars

\* The watchdog after one get() for "K1" was answered, at clock 0, by a 429
\* with Retry-After 20: the State of "K1" holds that one record.
\* BEA_API_KEY is set to "K1". Calls are counted from here.
InitWarm ==
    /\ clock = 0
    /\ StateIdle
    /\ env = "K1"
    /\ states = [k \in {"K1"} |-> 1]
    /\ heap = << <<Response(0, Resp(429, Header(20), 1, FALSE, "error"), 20)>> >>
    /\ owner = <<"K1">>
    /\ pc = [t \in Threads |-> "idle"]
    /\ api_key = [t \in Threads |-> NoKey]
    /\ found = [t \in Threads |-> FALSE]
    /\ st = [t \in Threads |-> 0]
    /\ wake = [t \in Threads |-> 0]
    /\ response = [t \in Threads |-> NoResp]
    /\ rec = [t \in Threads |-> NoRec]
    /\ call = [t \in Threads |-> NoCall]
    /\ result = NoResult
    /\ nCalls = 0
    /\ hist = [k \in Keys |->
                  IF k = "K1" THEN [deadline |-> 20, early |-> FALSE]
                  ELSE NoHist]
    /\ StoreIdle

SpecWarm == InitWarm /\ [][Next]_vars

-----------------------------------------------------------------------------
(* SpecStore: the feature store. A dataframe is its index (dates, here     *)
(* whole numbers ordered as the date strings are), its column labels and   *)
(* its cells by position; the table is a set of rows.                      *)

\* _DailyFeatures.columns
columns == <<"price", "open", "high", "low", "close", "volume">>

\* The same labels in sorted order, the order DataFrame.pivot leaves them in
SortedLabels == <<"close", "high", "low", "open", "price", "volume">>

\* Column order of the frame _normalize builds: the price history's columns,
\* then the price column assigned last
NormalizeOrder == <<"open", "high", "low", "close", "volume", "price">>

ColumnOrders == {columns, NormalizeOrder}

Tickers == {"AAPL", "MSFT"}

\* Indexes of the dataframes handed to to_store
Indexes == {<<1>>, <<2>>, <<1, 2>>, <<2, 1>>, <<2, 2>>}

Seeds == {0, 100}

\* The cell pivot leaves where the table has no row
NaN == 0 - 1

Range(f) == {f[x] : x \in DOMAIN f}

ColIndex(label) == CHOOSE j \in DOMAIN columns : columns[j] = label

\* A dataframe whose cell for a date and a label is a value of its own
DataFrame(index, labels, seed) ==
    [index |-> index,
     columns |-> labels,
     data |-> [i \in DOMAIN index |->
                  [j \in DOMAIN labels |->
                      seed + 10 * index[i] + ColIndex(labels[j])]]]

Frames ==
    {DataFrame(ix, ls, sd) : ix \in Indexes, ls \in ColumnOrders, sd \in Seeds}

\* primary_key=True on ticker, date and name
PrimaryKey(r) == <<r.ticker, r.date, r.name>>

\* df.reset_index(names="date").melt("date", var_name="name",
\* value_name="value"): one row per cell, column after column
melt(df) ==
    LET n == Len(df.index)
    IN  [p \in 1..(n * Len(df.columns)) |->
            LET j == ((p - 1) \div n) + 1
                i == ((p - 1) % n) + 1
            IN  [date |-> df.index[i], name |-> df.columns[j],
                 value |-> df.data[i][j]]]

\* Row p of recs cannot be inserted: its key is in the table or was
\* inserted earlier in the same statement
Collides(tbl, recs, p) ==
    \/ \E r \in tbl : PrimaryKey(r) = PrimaryKey(recs[p])
    \/ \E q \in 1..(p - 1) : PrimaryKey(recs[q]) = PrimaryKey(recs[p])

\* Variant of insert: the rows inserted before the failing one are
\* committed
insert_norollback(tbl, recs) ==
    LET bad == {p \in DOMAIN recs : Collides(tbl, recs, p)}
    IN  IF bad # {}
        THEN [table |-> tbl \cup {recs[q] : q \in {q \in DOMAIN recs :
                                        \A p \in bad : q < p}},
              exc |-> "IntegrityError"]
        ELSE [table |-> tbl \cup Range(recs), exc |-> "none"]

\* with engine.begin() as conn: conn.execute(table.insert(), records):
\* all rows are inserted, or the transaction is rolled back and
\* IntegrityError leaves the block
insert(tbl, recs) ==
    LET bad == {p \in DOMAIN recs : Collides(tbl, recs, p)}
    IN  IF bad # {}
        THEN [table |-> tbl, exc |-> "IntegrityError"]
        ELSE [table |-> tbl \cup Range(recs), exc |-> "none"]

to_store(tbl, ticker, df) ==
    LET long == melt(df)
        recs == [p \in DOMAIN long |->
                    [ticker |-> ticker, date |-> long[p].date,
                     name |-> long[p].name, value |-> long[p].value]]
        ins == insert(tbl, recs)
    IN  [table |-> ins.table,
         count |-> IF ins.exc = "none" THEN Len(recs) ELSE 0,
         exc |-> ins.exc]

\* The members of a set of numbers in ascending order
Ascending(S) ==
    CHOOSE f \in [1..Cardinality(S) -> S] :
        \A i, j \in 1..Cardinality(S) : i < j => f[i] < f[j]

\* df.pivot(index="date", values="value", columns="name").sort_index()
pivot(rows) ==
    LET index == Ascending({r.date : r \in rows})
        labels == SelectSeq(SortedLabels,
                            LAMBDA l : l \in {r.name : r \in rows})
        Cell(d, l) ==
            IF \E r \in rows : r.date = d /\ r.name = l
            THEN (CHOOSE r \in rows : r.date = d /\ r.name = l).value
            ELSE NaN
    IN  [index |-> index,
         columns |-> labels,
         data |-> [i \in DOMAIN index |->
                      [j \in DOMAIN labels |-> Cell(index[i], labels[j])]]]

\* select where ticker == ticker, pivot, df = df[list(cls.columns)].
\* Without rows the frame has no "date" column to pivot on, and a declared
\* label missing from the pivoted frame cannot be selected: KeyError.
from_store(tbl, ticker) ==
    LET rows == {r \in tbl : r.ticker = ticker}
    IN  IF rows = {}
        THEN [df |-> NoFrame, exc |-> "KeyError"]
        ELSE LET pv == pivot(rows)
                 Pos(l) == CHOOSE j \in DOMAIN pv.columns : pv.columns[j] = l
             IN  IF \E j \in DOMAIN columns : columns[j] \notin Range(pv.columns)
                 THEN [df |-> NoFrame, exc |-> "KeyError"]
                 ELSE [df |-> [index |-> pv.index,
                               columns |-> columns,
                               data |-> [i \in DOMAIN pv.index |->
                                            [j \in DOMAIN columns |->
                                                pv.data[i][Pos(columns[j])]]]],
                       exc |-> "none"]

InitStore ==
    /\ clock = 0
    /\ StateIdle
    /\ ApiIdle
    /\ StoreIdle

ToStore ==
    \E ticker \in Tickers, df \in Frames :
        /\ nWrites < MaxWrites
        /\ nWrites' = nWrites + 1
        /\ LET w == to_store(table, ticker, df)
           IN  /\ table' = w.table
               /\ storeRet' = [count |-> w.count, df |-> NoFrame]
               /\ storeExc' = w.exc
               /\ writes' = IF w.exc = "none"
                            THEN Append(writes, [ticker |-> ticker, df |-> df])
                            ELSE writes
        /\ storeOp' = "to_store"
        /\ storeArg' = [ticker |-> ticker, df |-> df]
        /\ tableBefore' = table
        /\ UNCHANGED <<clock, stateVars, apiVars>>

FromStore ==
    \E ticker \in Tickers :
        /\ LET f == from_store(table, ticker)
           IN  /\ storeRet' = [count |-> 0, df |-> f.df]
               /\ storeExc' = f.exc
        /\ storeOp' = "from_store"
        /\ storeArg' = [ticker |-> ticker, df |-> NoFrame]
        /\ tableBefore' = table
        /\ UNCHANGED <<table, writes, nWrites>>
        /\ UNCHANGED <<clock, stateVars, apiVars>>

NextStore ==
    \/ ToStore
    \/ FromStore

SpecStore == InitStore /\ [][NextStore]_vars

-----------------------------------------------------------------------------
(* Properties of one State (SpecState).                                    *)
(* The definitions below restate the specification's wording; they do not  *)
(* use the operators that model the code, except to read a value the code  *)
(* would return.                                                           *)

\* The responses of w no more than 60 seconds older than its newest one
Recent(w) ==
    SelectSeq(w, LAMBDA r : w[Len(w)].time - r.time <= 60)

ErrorCount(w) == Cardinality({i \in DOMAIN w : w[i].is_error})

Throttled(w) ==
    \/ ErrorCount(w) >= 30
    \/ Len(w) >= 100
    \/ SumSizes(w) >= 100000000

\* The record update() appends for a response that is not served from the
\* cache and whose Retry-After, if it is a 429, is a number
Appended(resp, now) ==
    [time |-> now, size |-> resp.size, is_error |-> resp.status_code # 200,
     retry_after |-> IF resp.status_code = 429
                     THEN resp.retry_after.value ELSE 0]

Appends ==
    /\ lastOp = "update"
    /\ ~lastArg.from_cache
    /\ lastExc = "none"

\* The window on which the last evaluation computed the wait it returned
WaitInput == IF Appends THEN Append(before, Appended(lastArg, clock)) ELSE before

WaitComputed ==
    /\ lastOp = "next_valid_request_dt" \/ Appends
    /\ WaitInput # <<>>

ExpectedWait(w) ==
    LET serverWait == w[Len(w)].retry_after
        kept == Recent(w)
    IN  IF Throttled(kept)
        THEN Max(serverWait, 60 - (kept[Len(kept)].time - kept[1].time))
        ELSE serverWait

\* C2: on a non-empty window nextValidRequestWait returns
\* max(serverWait, 60 - (newest - oldest after eviction)) when the window is
\* throttled and serverWait otherwise, serverWait being the retry_after of
\* the most recently appended record.
C2_WaitFormula == WaitComputed => lastRet = ExpectedWait(WaitInput)

\* C2 witness: a wait computed on a throttled window from which stale
\* records had to be evicted first, the window's share exceeding serverWait.
C2_Witness ==
    /\ WaitComputed
    /\ Len(Recent(WaitInput)) < Len(WaitInput)
    /\ Throttled(Recent(WaitInput))
    /\ lastRet > WaitInput[Len(WaitInput)].retry_after

\* C3: isThrottled is true exactly when, after eviction, errors >= 30 or
\* records >= 100 or total size >= 100,000,000 bytes.
C3_ThrottledIff ==
    lastOp = "is_throttled" => (lastRet = Throttled(Recent(before)))

\* C3 witness: a window holding a single record of 100,000,001 bytes is
\* reported throttled.
C3_Witness ==
    /\ lastOp = "is_throttled"
    /\ Len(before) = 1
    /\ before[1].size = 100000001
    /\ lastRet = TRUE

Evicting ==
    \/ lastOp \in {"errors_per_minute", "requests_per_minute",
                   "volume_per_minute", "is_throttled", "pop"}
    \/ WaitComputed

\* C4: after eviction has run (every metric read runs it) every record left
\* in the window is at most 60 seconds older than the newest record.
C4_WindowWithin60 ==
    Evicting =>
        \A i \in DOMAIN responses :
            responses[Len(responses)].time - responses[i].time <= 60

\* C4 witness: an eviction that removed some records and kept others
\* besides the newest.
C4_Witness ==
    /\ Evicting
    /\ Len(responses) > 1
    /\ Len(responses) < Len(WaitInput)

\* C5: recording a response flagged as a cache hit leaves the window as it
\* was and returns wait 0.
C5_CacheBypass ==
    (lastOp = "update" /\ lastArg.from_cache) =>
        /\ responses = before
        /\ lastRet = 0
        /\ lastExc = "none"

\* C5 witness: a cache hit recorded on a throttled window whose newest
\* record carries a positive retry_after.
C5_Witness ==
    /\ lastOp = "update"
    /\ lastArg.from_cache
    /\ before # <<>>
    /\ Throttled(Recent(before))
    /\ before[Len(before)].retry_after > 0

Records429 ==
    /\ Appends
    /\ lastArg.status_code = 429
    /\ lastArg.retry_after.kind = "number"

\* C6: recording a non-cached 429 with Retry-After r makes
\* nextValidRequestWait return at least r immediately afterwards.
C6_RetryAfterHonored ==
    Records429 =>
        /\ lastRet >= lastArg.retry_after.value
        /\ next_valid_request_dt(responses).ret >= lastArg.retry_after.value

\* C6 witness: such a 429 recorded on a window that is throttled as well,
\* the window's own share of the wait being smaller than r.
C6_Witness ==
    /\ Records429
    /\ Throttled(responses)
    /\ 60 - (responses[Len(responses)].time - responses[1].time)
           < lastArg.retry_after.value
    /\ lastRet = lastArg.retry_after.value

\* C9: a 429 whose Retry-After header is missing or malformed is recorded
\* with retry_after_seconds = 0 and record() does not fail.
C9_BadRetryAfterDegrades ==
    ( /\ lastOp = "update"
      /\ ~lastArg.from_cache
      /\ lastArg.status_code = 429
      /\ lastArg.retry_after.kind \in {"absent", "malformed"} ) =>
        /\ lastExc = "none"
        /\ responses # <<>>
        /\ responses[Len(responses)] =
               [time |-> clock, size |-> lastArg.size, is_error |-> TRUE,
                retry_after |-> 0]

-----------------------------------------------------------------------------
(* Properties of concurrent get() calls (Spec) *)

\* Thread t has read the wait of its credential's State and has not yet
\* recorded the response of the request it is about to send or has sent
InSequence(t) == pc[t] \in {"sleep", "inflight", "update", "append"}

\* C1: for one credential the wait-send-record sequence is serialized: a
\* second caller reads the wait only after the first has recorded its
\* response, so no two callers of one credential are inside the sequence
\* at once.
C1_Serialized ==
    \A t1, t2 \in Threads :
        (t1 # t2 /\ InSequence(t1) /\ InSequence(t2))
            => api_key[t1] # api_key[t2]

\* C7: after a 429 with Retry-After r is recorded for a credential, the next
\* request sent for that credential leaves no earlier than r seconds after
\* the recording.
C7_NextRequestWaits == \A k \in Keys : ~hist[k].early

\* C8: a get() that received a response from the server has, when it returns
\* or raises, appended exactly one record to its credential's State.
C8_ResponseRecorded ==
    (result.kind # "none" /\ result.call.got = "fresh")
        => result.call.appended = 1

StatesOf(k) == {o \in DOMAIN owner : owner[o] = k}

\* C10: at most one State object is ever constructed for a credential, and
\* every caller holding a State holds the one registered for its credential.
C10_OneStatePerCredential ==
    /\ \A k \in Keys : Cardinality(StatesOf(k)) <= 1
    /\ \A t \in Threads : st[t] # 0 => st[t] = states[api_key[t]]

\* Thread t takes the step
Acting(t) == pc'[t] # pc[t]

\* The credential thread t is working for: the one it holds, or the one it
\* resolves in this step
KeyOf(t) == IF api_key[t] # NoKey THEN api_key[t] ELSE api_key'[t]

\* What credential k's State is: the registered object and the window of
\* every State object constructed for k. The wait a State returns is
\* next_valid_request_dt of its window and of nothing else, so it is part of
\* this view.
StateView(k) ==
    [registered |-> IF k \in DOMAIN states THEN states[k] ELSE 0,
     windows |-> [o \in StatesOf(k) |-> heap[o]]]

\* C11: for two distinct credentials A and B, no step of a get() call for A
\* (lookup, creation, wait read, send, record) changes B's registered State
\* or the window of a State of B, and with the window the wait it returns.
C11_CredentialsIndependent ==
    [][\A t \in Threads, b \in Keys :
          (Acting(t) /\ KeyOf(t) # b) => StateView(b)' = StateView(b)]_vars

\* C11 witness: a get() has just appended a record while both credentials
\* have a registered State with a non-empty window.
C11_Witness ==
    /\ result.kind # "none"
    /\ result.call.appended = 1
    /\ \A k \in Keys : k \in DOMAIN states /\ heap[states[k]] # <<>>

-----------------------------------------------------------------------------
(* Scenarios of one State (SpecState) *)

SuccessCount(w) == Cardinality({i \in DOMAIN w : ~w[i].is_error})

\* Newest timestamp minus oldest timestamp of a non-empty window
Span(w) == w[Len(w)].time - w[1].time

\* The last evaluation computed a wait on a window of at least 100
\* successful responses spanning at most 60 seconds
HundredWithinWindow ==
    /\ WaitComputed
    /\ SuccessCount(WaitInput) >= 100
    /\ Span(WaitInput) <= 60

\* C12: when at least 100 non-cached successful responses are recorded with
\* newest and oldest timestamps d <= 60 seconds apart, the wait computed next
\* is at least 60 - d.
C12_HundredSuccessesWait ==
    HundredWithinWindow => lastRet >= 60 - Span(WaitInput)

\* C12 witness: 101 successful responses recorded at one instant, and a
\* wait of a full minute computed on them.
C12_Witness ==
    /\ HundredWithinWindow
    /\ lastOp = "next_valid_request_dt"
    /\ SuccessCount(WaitInput) = 101
    /\ Span(WaitInput) = 0
    /\ lastRet = 60

\* Window w holds error responses only, recorded within one second
ErrorBurst(w) ==
    /\ w # <<>>
    /\ ErrorCount(w) = Len(w)
    /\ \A i, j \in DOMAIN w : w[i].time - w[j].time <= 1

\* C13: after N non-cached non-200 responses recorded within one second,
\* errorsPerMinute is N and, when N >= 30, isThrottled is true, at whatever
\* later time they are read as long as no further record is added.
C13_ErrorBurstThrottles ==
    ErrorBurst(before) =>
        /\ lastOp = "errors_per_minute" => lastRet = Len(before)
        /\ (lastOp = "is_throttled" /\ Len(before) >= 30) => lastRet = TRUE

\* C13 witness: exactly 30 errors of one instant, read as throttled more
\* than a minute after they were recorded.
C13_Witness ==
    /\ ErrorBurst(before)
    /\ Len(before) = 30
    /\ lastOp = "is_throttled"
    /\ lastRet = TRUE
    /\ clock > before[Len(before)].time + 60

-----------------------------------------------------------------------------
(* Scenarios of get() (Spec) *)

\* Thread t has read the wait of a State that has no record
ReadEmpty(t) == pc[t] = "sleep" /\ heap[st[t]] = <<>>

\* C14: a get() that finds its credential's State without records sleeps
\* for zero seconds before sending; on a State without records
\* nextValidRequestWait is 0, every per-minute metric is 0 and isThrottled
\* is false.
C14_FirstGetNoWait ==
    /\ \A t \in Threads :
           ReadEmpty(t) => (call[t].slept = 0 /\ wake[t] <= clock)
    /\ \A o \in DOMAIN heap :
           heap[o] = <<>> =>
               /\ next_valid_request_dt(heap[o]).ret = 0
               /\ errors_per_minute(heap[o]).ret = 0
               /\ requests_per_minute(heap[o]).ret = 0
               /\ volume_per_minute(heap[o]).ret = 0
               /\ is_throttled(heap[o]).ret = FALSE

\* C14 witness: the first get() on a fresh registry has created its State
\* and read a wait of zero.
C14_Witness ==
    /\ nCalls = 1
    /\ Len(heap) = 1
    /\ \E t \in Threads : ReadEmpty(t) /\ call[t].slept = 0

\* C15: a get() given no credential while none is set in the environment
\* raises at once: it takes no further step, so it reads no wait, sends no
\* request and records nothing, and only such a get() raises that error.
C15_MissingCredentialFails ==
    /\ \A t \in Threads : pc[t] # "idle" => api_key[t] # NoKey
    /\ result.kind = "RuntimeError" =>
           /\ env = NoKey
           /\ result.call = NoCall
           /\ pc[result.thread] = "idle"

\* C15 witness: a get() without credential has just failed while the other
\* thread's get(), given a credential, is on its way.
C15_Witness ==
    /\ result.kind = "RuntimeError"
    /\ env = NoKey
    /\ \E t \in Threads : pc[t] # "idle"

\* C16: when requests.get raises before a response is received, get() ends
\* with that exception, the step leaves every window and the registry as
\* they were, and the call has appended no record; the wait read earlier in
\* the call changed no window either.
C16_TransportFailureNotRecorded ==
    [][\A t \in Threads :
          /\ (Acting(t) /\ pc[t] = "inflight" /\ pc'[t] = "idle") =>
                 /\ result'.thread = t
                 /\ result'.kind = "ConnectionError"
                 /\ result'.call.got = "none"
                 /\ result'.call.appended = 0
                 /\ heap' = heap
                 /\ states' = states
          /\ (Acting(t) /\ pc[t] = "wait") => heap' = heap]_vars

\* C16 witness: a get() has just failed at transport level for the only
\* credential that has a State, and that State holds a record.
C16_Witness ==
    /\ result.kind = "ConnectionError"
    /\ Len(heap) = 1
    /\ heap[1] # <<>>

\* C17: when get() fails at the parse of a response that carries an error
\* envelope, recording that response has raised errorsPerMinute of the
\* credential's State by one.
C17_ApiFailureCounted ==
    [][\A t \in Threads :
          (Acting(t) /\ pc[t] = "append" /\ Parsed(response[t]) # "returned")
              => errors_per_minute(heap'[st[t]]).ret
                     = errors_per_minute(heap[st[t]]).ret + 1]_vars

-----------------------------------------------------------------------------
(* Callers of different credentials (SpecWarm) *)

\* Thread t is in time.sleep and its wait is not over
Sleeping(t) == pc[t] = "sleep" /\ clock < wake[t]

\* The next step of thread t's get()
Step(t) ==
    \/ GetItemCheck(t)
    \/ GetItemCreate(t)
    \/ ReadWait(t)
    \/ Send(t)
    \/ CacheHit(t)
    \/ \E resp \in ApiResponses : Receive(t, resp)
    \/ TransportError(t)
    \/ UpdateBegin(t)
    \/ UpdateAppend(t)

\* C18: while a caller sleeps the wait imposed for credential A, a get()
\* under way for another credential B can always take its next step (look
\* up or create its State, read its own wait, send, record) unless it is
\* itself in a wait of its own credential that is not over.
C18_OtherCredentialNotDelayed ==
    \A a, b \in Threads :
        ( /\ Sleeping(a)
          /\ pc[b] # "idle"
          /\ api_key[b] # api_key[a]
          /\ ~Sleeping(b) ) => ENABLED Step(b)

\* C18 witness: one caller is still sleeping for its credential while a
\* caller of the other credential, which started later, is already
\* recording its response.
C18_Witness ==
    \E a, b \in Threads :
        /\ Sleeping(a)
        /\ call[a].slept > 0
        /\ pc[b] = "append"
        /\ api_key[b] # api_key[a]

-----------------------------------------------------------------------------
(* Properties of the feature store (SpecStore) *)

\* to_store was called with a dataframe that has a cell whose
\* (ticker, date, name) was in the table already
DuplicateWrite ==
    /\ storeOp = "to_store"
    /\ \E r \in tableBefore :
           /\ r.ticker = storeArg.ticker
           /\ r.date \in Range(storeArg.df.index)
           /\ r.name \in Range(storeArg.df.columns)

\* C19: a to_store whose rows repeat a (ticker, date, name) already in the
\* table raises IntegrityError and leaves the table as it was.
C19_DuplicateWriteRejected ==
    DuplicateWrite => (storeExc = "IntegrityError" /\ table = tableBefore)

\* C19 witness: a rejected write that brought other values for the dates
\* stored and, ahead of them, rows for a date the table did not have.
C19_Witness ==
    /\ DuplicateWrite
    /\ storeExc = "IntegrityError"
    /\ storeArg.df.index = <<1, 2>>
    /\ {r.date : r \in {x \in tableBefore : x.ticker = storeArg.ticker}} = {2}
    /\ \A r \in tableBefore : r.value < 100
    /\ storeArg.df.data[1][1] > 100

\* from_store reads the ticker of the only write the store has accepted
ReadsOnlyWrite ==
    /\ storeOp = "from_store"
    /\ Len(writes) = 1
    /\ writes[1].ticker = storeArg.ticker

\* C20: whatever feature table was written into the empty store, from_store
\* returns a table equal to it: the same index, the same column labels in
\* the same order, the same cells.
C20_RoundTrip ==
    ReadsOnlyWrite => (storeExc = "none" /\ storeRet.df = writes[1].df)

-----------------------------------------------------------------------------
(* Invariants of the window (SpecState, Spec) *)

\* Sequence s is what is left of w after removing records from its front
IsSuffix(s, w) ==
    /\ Len(s) <= Len(w)
    /\ \A i \in DOMAIN s : s[i] = w[Len(w) - Len(s) + i]

\* C21: eviction only removes records from the front and keeps the newest
\* one: whatever method or property was evaluated on a non-empty window
\* (after the append, for update), the window left behind is a non-empty
\* suffix of it.
C21_EvictionKeepsNewest ==
    (lastOp \notin {"none", "tick"} /\ WaitInput # <<>>) =>
        /\ responses # <<>>
        /\ IsSuffix(responses, WaitInput)

\* C21 witness: an evaluation that evicted every record but the newest.
C21_Witness ==
    /\ lastOp \notin {"none", "tick"}
    /\ Len(WaitInput) > 1
    /\ Len(responses) = 1
    /\ responses[1] = WaitInput[Len(WaitInput)]

\* Timestamps of w do not decrease from front to back
Ordered(w) == \A i, j \in DOMAIN w : i < j => w[i].time <= w[j].time

\* C22: the window of every State is ordered by arrival, timestamps not
\* decreasing from front to back, also when several callers record
\* responses for one credential concurrently.
C22_WindowOrdered == \A o \in DOMAIN heap : Ordered(heap[o])

\* isThrottled computed in one pass: evict once, then test the three limits
\* on what is left
OnePass(w) ==
    LET p == pop(w)
    IN  [responses |-> p,
         ret |-> \/ ErrorCount(p) >= 30
                 \/ Len(p) >= 100
                 \/ SumSizes(p) >= 100000000]

\* C23: the three evict-then-measure passes of is_throttled return what one
\* evict-then-compute-all pass returns and leave the same window, on every
\* window the State evaluates it on: the window a read finds, and the window
\* update() has just appended to, from which stale records are still to be
\* evicted.
C23_ThreePassesAsOne ==
    /\ lastOp = "is_throttled" =>
           /\ lastRet = OnePass(before).ret
           /\ responses = OnePass(before).responses
    /\ WaitComputed => is_throttled(WaitInput) = OnePass(WaitInput)

\* C23 witness: is_throttled evaluated, inside update(), on a window from
\* which it evicts records and which is throttled by what is left.
C23_Witness ==
    /\ Appends
    /\ Len(responses) < Len(WaitInput)
    /\ is_throttled(WaitInput).ret
    /\ is_throttled(WaitInput).responses = responses

\* The last evaluation returned a wait: the property read, or update()
WaitReturned ==
    \/ lastOp = "next_valid_request_dt"
    \/ lastOp = "update" /\ lastExc = "none"

\* C24: with non-negative Retry-After values and timestamps that do not
\* decrease, every wait returned is at least 0 and at most the larger of 60
\* and the retry_after of the newest record.
C24_WaitBounded ==
    (WaitReturned /\ Ordered(WaitInput)
       /\ \A i \in DOMAIN WaitInput : WaitInput[i].retry_after >= 0) =>
        /\ lastRet >= 0
        /\ lastRet <= (IF WaitInput = <<>> THEN 60
                       ELSE Max(60, WaitInput[Len(WaitInput)].retry_after))

\* C24 witness: a 429 with Retry-After 20 recorded a minute after the
\* records that throttle the window: the wait is positive and below 60.
C24_Witness ==
    /\ Appends
    /\ Ordered(WaitInput)
    /\ Len(WaitInput) > 1
    /\ WaitInput[Len(WaitInput)].time - WaitInput[1].time = 60
    /\ WaitInput[Len(WaitInput)].retry_after = 20
    /\ Throttled(Recent(WaitInput))
    /\ lastRet = 20

\* C25: between two appends nextValidRequestWait returns the value it, or
\* the append, returned before, however often it is read and whatever the
\* clock has become, and reading it leaves the window as it is; likewise
\* isThrottled keeps the value it had.
C25_WaitIgnoresClock ==
    [][/\ (lastOp' = "next_valid_request_dt" /\ seen.wait >= 0) =>
              (lastRet' = seen.wait /\ responses' = responses)
       /\ (lastOp' = "is_throttled" /\ seen.throttled # "unknown") =>
              (lastRet' = (seen.throttled = "yes") /\ responses' = responses)
      ]_vars

\* C25 witness: a throttled window still answers a wait of 60 seconds 61
\* seconds after the records were appended.
C25_Witness ==
    /\ lastOp = "next_valid_request_dt"
    /\ nUpdates >= 1
    /\ responses # <<>>
    /\ responses[Len(responses)].time = 0
    /\ clock = 61
    /\ lastRet = 60

-----------------------------------------------------------------------------
(* Cache hits in get() (SpecWarm) *)

\* C26: get() sleeps the wait it has read before requests.get can answer
\* from the cache: the sleep ends w seconds after the read, a cache hit
\* comes only when the sleep is over, and the cache hit and its update()
\* leave every window, and with it the wait of the following call, as
\* they were.
C26_CacheHitStillWaits ==
    [][\A t \in Threads :
          /\ (Acting(t) /\ pc[t] = "wait") =>
                 wake'[t] = clock + call'[t].slept
          /\ (Acting(t) /\ pc[t] = "sleep" /\ pc'[t] = "update") =>
                 /\ clock >= wake[t]
                 /\ heap' = heap
          /\ (Acting(t) /\ pc[t] = "update" /\ response[t].from_cache) =>
                 /\ heap' = heap
                 /\ result'.thread = t
                 /\ result'.call.got = "cached"
                 /\ result'.call.appended = 0
                 /\ result'.call.slept = call[t].slept]_vars

\* C26 witness: a get() has returned a cached response after a sleep of 20
\* seconds, and the window that imposed the sleep is as it was.
C26_Witness ==
    /\ result.kind = "returned"
    /\ result.call.got = "cached"
    /\ result.call.slept = 20
    /\ clock >= 20
    /\ Len(heap[states["K1"]]) = 1

====
